---- MODULE Spec2Model ----
(***************************************************************************)
(* State-machine model of the optimistic-update logic of the LMS           *)
(* dashboard front end:                                                    *)
(*   - GradesManager (src/unnamed/part_001): grade cells with a snapshot   *)
(*     (originalGradesRef), onChange / onBlur, updateGrade, createGrade;   *)
(*   - AttendanceManager (src/frontend/src/components/AttendanceManager    *)
(*     .tsx): status cycle, verify, scope change;                          *)
(*   - the Dashboard component held in src/frontend/src/components/        *)
(*     Login.tsx: attendance with per-student auto-save;                   *)
(*   - Chat (src/frontend/src/components/Chat.tsx): sendMessage;           *)
(*   - TaskManager (src/frontend/src/components/TaskManager.tsx): task     *)
(*     create, update, delete and quick status update.                     *)
(* Points are integers counted in tenths of a point (the input's           *)
(* step="0.1"), so 855 is 85.5 points.  A value that may be missing        *)
(* (points_earned, null | undefined | '') is a sequence of length 0 or 1.  *)
(* A request is outstanding from the moment fetch() is called until its    *)
(* promise settles; the remote store reads or writes at the moment the     *)
(* promise settles, and outstanding requests settle in any order.          *)
(***************************************************************************)
EXTENDS Integers, Sequences, FiniteSets, TLC

VARIABLES
    selectedGradeClass,  \* GradesManager: useState selectedGradeClass
    gradesData,          \* GradesManager: useState gradesData
    originalGradesRef,   \* GradesManager: useState originalGradesRef
    loadingGrades,       \* GradesManager: useState loadingGrades
    srvGrades,           \* remote store: the grades of every class
    nextId,              \* remote store: next grade id to hand out
    attendance,          \* attendance components: useState attendance
    selectedDate,        \* attendance components: useState selectedDate
    isVerified,          \* attendance components: useState isVerified
    isVerifying,         \* attendance components: useState isVerifying
    loading,             \* attendance components: useState loading
    srvAtt,              \* remote store: attendance records of every date
    messages,            \* Chat: useState messages
    inputValue,          \* Chat: useState inputValue
    isLoading,           \* Chat: useState isLoading
    tasks,               \* TaskManager: useState tasks
    tasksLoading,        \* TaskManager: useState loading
    showCreateForm,      \* TaskManager: useState showCreateForm
    editingTask,         \* TaskManager: useState editingTask
    formData,            \* TaskManager: useState formData
    srvTasks,            \* remote store: the tasks
    nextTaskId,          \* remote store: next task id to hand out
    error,               \* useState error of the component under study
    net,                 \* outstanding fetch() calls, in issue order
    issued,              \* number of fetch() calls made so far
    ev                   \* the handler step that produced this state

gmVars == <<selectedGradeClass, gradesData, originalGradesRef, loadingGrades,
            srvGrades, nextId>>
attVars == <<attendance, selectedDate, isVerified, isVerifying, loading, srvAtt>>
chatVars == <<messages, inputValue, isLoading>>
taskVars == <<tasks, tasksLoading, showCreateForm, editingTask, formData,
              srvTasks, nextTaskId>>
vars == <<selectedGradeClass, gradesData, originalGradesRef, loadingGrades,
          srvGrades, nextId, attendance, selectedDate, isVerified, isVerifying,
          loading, srvAtt, messages, inputValue, isLoading, tasks,
          tasksLoading, showCreateForm, editingTask, formData, srvTasks,
          nextTaskId, error, net, issued, ev>>

(***************************************************************************)
(* Bounds                                                                  *)
(***************************************************************************)
MaxInFlight == 2      \* outstanding requests at any one time
MaxRequests == 3      \* fetch() calls made in one run, the mount's included

(***************************************************************************)
(* Program constants and fixtures                                          *)
(***************************************************************************)
Tenths == 10          \* step="0.1": values are counted in tenths
RangeMin == 0         \* numValue < 0
RangeMax == 100       \* numValue > 100

Classes == {1, 2}               \* ids of props.classes
FirstClass == 1                 \* classes[0].id
NoClass == 0                    \* selectedGradeClass === null
Students == {1, 2}              \* student ids of a roster
\* grade cells <<student.id, assignment.id>>: one assignment column
Cells == {<<s, 1>> : s \in Students}
NoCell == <<0, 0>>
PersistedCell == <<1, 1>>       \* the cell that has a grade row at start

Absent == <<>>                  \* null, undefined or ''
Num(n) == <<n>>
IsNum(p) == Len(p) = 1
Val(p) == p[1]

\* What the user can leave in a grade input: empty, 0, 85.5, 100.5
InputVals == {Absent, Num(0), Num(855), Num(1005)}
\* points_earned the remote store may hold for the persisted cell at start
InitPoints == {Num(0), Num(850)}

\* assignment.max_points of the assignment column, in points
max_points == 100

NoGrade == [id |-> 0, points_earned |-> Absent]
NullData == [class |-> NoClass, cells |-> [c \in Cells |-> NoGrade]]
IsNull(gd) == gd.class = NoClass

(***************************************************************************)
(* Pure helpers of the grade input                                         *)
(***************************************************************************)
\* Math.round on a value in tenths: floor(x + 0.5)
MathRound(t) == ((t + (Tenths \div 2)) \div Tenths) * Tenths

\* numValue of onBlur: e.target.value === '' ? null : Math.round(parseFloat)
NumValue(p) == IF IsNum(p) THEN Num(MathRound(Val(p))) ELSE Absent

\* (numValue < 0 || numValue > 100)
OutOfRange(nv) ==
    IsNum(nv) /\ (Val(nv) < RangeMin * Tenths \/ Val(nv) > RangeMax * Tenths)

\* originalPoints ? Math.round(originalPoints) : null   (0 is falsy)
OriginalValue(op) ==
    IF IsNum(op) /\ Val(op) # 0 THEN Num(MathRound(Val(op))) ELSE Absent

\* originalGradesRef?.students.find(...)?.grades[assignment.id]?.points_earned
OriginalPoints(cell) ==
    IF IsNull(originalGradesRef) THEN Absent
    ELSE originalGradesRef.cells[cell].points_earned

\* numValue !== originalValue
ValueChanged(cell) ==
    NumValue(gradesData.cells[cell].points_earned)
        # OriginalValue(OriginalPoints(cell))

(***************************************************************************)
(* Requests and events                                                     *)
(***************************************************************************)
NoCommit == [cell |-> NoCell, points |-> Absent]

\* a fetch() of GradesManager and what its continuation closed over
Req(kind, cls, gradeId, cell, points, gd, awaitedBy) ==
    [kind |-> kind, cls |-> cls, gradeId |-> gradeId, cell |-> cell,
     points |-> points, gd |-> gd, awaitedBy |-> awaitedBy]

Ev(op, cell, cls, points, commit) ==
    [op |-> op, cell |-> cell, cls |-> cls, points |-> points,
     commit |-> commit]

Remove(seq, i) == SubSeq(seq, 1, i - 1) \o SubSeq(seq, i + 1, Len(seq))

CanIssue == Len(net) < MaxInFlight /\ issued < MaxRequests

Writes(cell) ==
    {i \in 1..Len(net) : net[i].kind \in {"PUT", "POST"} /\ net[i].cell = cell}
Loads == {i \in 1..Len(net) : net[i].kind = "GET"}

\* GET /api/classes/{classId}/grades
ServerData(cls) == [class |-> cls, cells |-> srvGrades[cls]]

\* the grades table is rendered: selectedGradeClass, !loadingGrades, gradesData
TableShown == ~loadingGrades /\ ~IsNull(gradesData)

(***************************************************************************)
(* Attendance: fixtures and pure helpers                                   *)
(***************************************************************************)
Dates == {1, 2}                 \* the dates the user moves between
Roster == <<1, 2>>              \* student ids, in the order the API lists them
Unset == ""                     \* status of a student with no record
statusCycle == <<"present", "absent", "tardy", "excused">>

\* statusCycle.indexOf(status), 0-based, -1 when not found
IndexOf(status) ==
    IF \E k \in 1..Len(statusCycle) : statusCycle[k] = status
    THEN (CHOOSE k \in 1..Len(statusCycle) : statusCycle[k] = status) - 1
    ELSE -1

\* mutant of NextStatus: unset is a fifth member of the cycle, after excused
NextStatus_FiveCycle(status) ==
    LET currentIndex == IndexOf(status)
    IN  IF currentIndex = -1 THEN statusCycle[1]
        ELSE IF currentIndex + 1 = Len(statusCycle) THEN Unset
        ELSE statusCycle[currentIndex + 2]

\* mutant of NextStatus: the cycle is walked backwards
NextStatus_Backwards(status) ==
    LET currentIndex == IndexOf(status)
        nextIndex == IF currentIndex = -1 THEN 0
                     ELSE (currentIndex + Len(statusCycle) - 1) % Len(statusCycle)
    IN  statusCycle[nextIndex + 1]

\* mutant of NextStatus: a status that is not in the cycle is left as it is
NextStatus_UnknownStays(status) ==
    LET currentIndex == IndexOf(status)
    IN  IF currentIndex = -1 THEN status
        ELSE statusCycle[((currentIndex + 1) % Len(statusCycle)) + 1]

\* currentIndex === -1 ? 0 : (currentIndex + 1) % statusCycle.length
NextStatus(status) ==
    LET currentIndex == IndexOf(status)
        nextIndex == IF currentIndex = -1 THEN 0
                     ELSE (currentIndex + 1) % Len(statusCycle)
    IN  statusCycle[nextIndex + 1]

NoRecord == [status |-> Unset, record_id |-> 0]
RecordIdOf(d, s) == 10 * d + s

\* GET /api/attendance?date=...: one row per student of the roster
AttendanceRows(d) ==
    [k \in 1..Len(Roster) |->
        [student_id |-> Roster[k],
         status |-> srvAtt[d][Roster[k]].status,
         record_id |-> srvAtt[d][Roster[k]].record_id]]

\* data.attendance.some(row => row.record_id)
SomeRecord(rows) == \E k \in 1..Len(rows) : rows[k].record_id # 0

\* mutant of DefaultAttendance: the rows are kept as fetched
DefaultAttendance_NoFill(rows) == rows

\* AttendanceManager: data.attendance.map(row => ({...row, status: row.status || 'present'}))
DefaultAttendance(rows) ==
    [k \in 1..Len(rows) |->
        [rows[k] EXCEPT !.status =
            IF rows[k].status = Unset THEN "present" ELSE rows[k].status]]

\* Dashboard: data.attendance.map(row => ({...row, status: 'present'}))
AttendanceWithDefaults(rows) ==
    [k \in 1..Len(rows) |-> [rows[k] EXCEPT !.status = "present"]]

\* prev.map(row => row.student_id === studentId ? {...row, status} : row)
WithStatus(rows, studentId, status) ==
    [k \in 1..Len(rows) |->
        IF rows[k].student_id = studentId
        THEN [rows[k] EXCEPT !.status = status]
        ELSE rows[k]]

\* attendance.map(row => ({student_id: row.student_id, status: row.status}))
RecordsOf(rows) ==
    [k \in 1..Len(rows) |->
        [student_id |-> rows[k].student_id, status |-> rows[k].status]]

HasRow(studentId) == \E k \in 1..Len(attendance) : attendance[k].student_id = studentId
RowOf(studentId) ==
    attendance[CHOOSE k \in 1..Len(attendance) : attendance[k].student_id = studentId]

\* POST /api/attendance: every submitted record is stored under the date
StoreRecords(d, records) ==
    [srvAtt EXCEPT ![d] =
        [s \in Students |->
            IF \E k \in 1..Len(records) : records[k].student_id = s
            THEN [status |->
                    records[CHOOSE k \in 1..Len(records) :
                                records[k].student_id = s].status,
                  record_id |-> RecordIdOf(d, s)]
            ELSE srvAtt[d][s]]]

\* a fetch() of an attendance component and what its continuation closed over
AReq(kind, date, records, student, status, prev, refresh) ==
    [kind |-> kind, date |-> date, records |-> records, student |-> student,
     status |-> status, prev |-> prev, refresh |-> refresh]

AEv(op, date, student, refresh, records) ==
    [op |-> op, date |-> date, student |-> student, refresh |-> refresh,
     records |-> records]

\* the attendance table is rendered: !loading and !error
RowsShown == ~loading /\ error = ""

AttLoads == {i \in 1..Len(net) : net[i].kind = "GETATT"}
AttWrites(s) ==
    {i \in 1..Len(net) : net[i].kind = "SAVEATT" /\ net[i].student = s}

(***************************************************************************)
(* Idle values of the component a specification does not run               *)
(***************************************************************************)
GradesIdle ==
    /\ selectedGradeClass = NoClass
    /\ gradesData = NullData
    /\ originalGradesRef = NullData
    /\ loadingGrades = FALSE
    /\ srvGrades = [c \in Classes |-> [cell \in Cells |-> NoGrade]]
    /\ nextId = 1

AttendanceIdle ==
    /\ attendance = <<>>
    /\ selectedDate = 1
    /\ isVerified = FALSE
    /\ isVerifying = FALSE
    /\ loading = FALSE
    /\ srvAtt = [d \in Dates |-> [s \in Students |-> NoRecord]]

(***************************************************************************)
(* Chat and TaskManager: fixtures and pure helpers.  A text is a sequence  *)
(* of one-character strings; message ids and timestamps are left out.      *)
(***************************************************************************)
\* what the textarea / the title input can hold
ChatInputs == {<<>>, <<" ">>, <<"a">>, <<" ", "a", " ">>, <<"a", " ", "b">>}
TitleInputs == {<<" ">>, <<"c">>}

IsSpace(c) == c = " "

RECURSIVE TrimStart(_)
TrimStart(s) ==
    IF s # <<>> /\ IsSpace(Head(s)) THEN TrimStart(Tail(s)) ELSE s

RECURSIVE TrimEnd(_)
TrimEnd(s) ==
    IF s # <<>> /\ IsSpace(s[Len(s)])
    THEN TrimEnd(SubSeq(s, 1, Len(s) - 1))
    ELSE s

\* String.prototype.trim
Trim(s) == TrimEnd(TrimStart(s))

Message(sender, content) == [sender |-> sender, content |-> content]

\* the greeting the messages state starts with
Greeting == Message("ai", <<"H">>)
\* the content of the message the catch block appends
ErrorReply == <<"S">>
\* data.response of POST /api/chat
Replies == {<<"r">>, <<"q">>}

ChatEv(op) == [op |-> op]

\* the statuses the quick actions set, and those chosen in the form's select
QuickStatuses == {"completed", "in_progress"}
FormStatuses == {"todo", "cancelled"}

\* editingTask === null
NoTask == [id |-> 0, title |-> <<>>, status |-> ""]
\* the formData resetForm sets
EmptyForm == [title |-> <<>>, status |-> "todo"]
\* the tasks the remote store holds at start
InitialTasks ==
    <<[id |-> 1, title |-> <<"a">>, status |-> "todo"],
      [id |-> 2, title |-> <<"b">>, status |-> "in_progress"]>>

\* a fetch() of TaskManager: the task id of its URL and its JSON body
TReq(kind, id, payload) == [kind |-> kind, id |-> id, payload |-> payload]
TaskEv(op, id) == [op |-> op, id |-> id]

\* if (loading) return <div>Loading tasks...</div>
TasksShown == ~tasksLoading

OnServer(id) == \E k \in 1..Len(srvTasks) : srvTasks[k].id = id
ServerTask(id) == srvTasks[CHOOSE k \in 1..Len(srvTasks) : srvTasks[k].id = id]

\* mutant of ReplaceTask: every task of the list is replaced
ReplaceTask_All(list, updatedTask) ==
    [k \in 1..Len(list) |-> updatedTask]

\* prev.map(task => task.id === updatedTask.id ? updatedTask : task)
ReplaceTask(list, updatedTask) ==
    [k \in 1..Len(list) |->
        IF list[k].id = updatedTask.id THEN updatedTask ELSE list[k]]

\* prev.filter(task => task.id !== taskId)
WithoutTask(list, taskId) == SelectSeq(list, LAMBDA task : task.id # taskId)

\* the message of the Error a failed fetch() throws, or of the Error thrown
\* on a non-2xx response
FailureMessages(notOk) == {"Failed to fetch", notOk}

ChatIdle ==
    /\ messages = <<Greeting>>
    /\ inputValue = <<>>
    /\ isLoading = FALSE

TasksIdle ==
    /\ tasks = <<>>
    /\ tasksLoading = FALSE
    /\ showCreateForm = FALSE
    /\ editingTask = NoTask
    /\ formData = EmptyForm
    /\ srvTasks = InitialTasks
    /\ nextTaskId = 3

(***************************************************************************)
(* GradesManager (src/unnamed/part_001)                                    *)
(***************************************************************************)
\* the state once the mount effects have run: classes[0] selected, first
\* fetchGrades outstanding
GMInit ==
    /\ selectedGradeClass = FirstClass
    /\ gradesData = NullData
    /\ originalGradesRef = NullData
    /\ loadingGrades = TRUE
    /\ error = ""
    /\ \E p \in InitPoints :
          srvGrades =
            [c \in Classes |->
               [cell \in Cells |->
                  IF cell = PersistedCell
                  THEN [id |-> c,
                        points_earned |-> IF c = FirstClass THEN p ELSE Num(900)]
                  ELSE NoGrade]]
    /\ nextId = 3
    /\ net = <<Req("GET", FirstClass, 0, NoCell, Absent, NullData, NoCommit)>>
    /\ issued = 1
    /\ ev = Ev("mount", NoCell, FirstClass, Absent, NoCommit)
    /\ AttendanceIdle
    /\ ChatIdle
    /\ TasksIdle

\* fetchGrades up to its await
FetchGradesCall(classId, awaitedBy) ==
    /\ loadingGrades' = TRUE
    /\ net' = Append(net, Req("GET", classId, 0, NoCell, Absent, NullData,
                              awaitedBy))
    /\ issued' = issued + 1

\* <select onChange> followed by the two effects on selectedGradeClass
SelectGradeClass(c) ==
    /\ c # selectedGradeClass
    /\ CanIssue
    /\ LET target == IF c = NoClass THEN FirstClass ELSE c IN
          /\ selectedGradeClass' = target
          /\ gradesData' = IF c = NoClass THEN NullData ELSE gradesData
          /\ FetchGradesCall(target, NoCommit)
          /\ ev' = Ev("selectClass", NoCell, target, Absent, NoCommit)
    /\ UNCHANGED <<originalGradesRef, error, srvGrades, nextId, attVars, chatVars, taskVars>>

\* grade-input onChange
OnChange(cell, v) ==
    /\ TableShown
    /\ gradesData' =
          [gradesData EXCEPT !.cells[cell].points_earned = v]
    /\ ev' = Ev("onChange", cell, selectedGradeClass, v, NoCommit)
    /\ UNCHANGED <<selectedGradeClass, originalGradesRef, loadingGrades, error,
                   srvGrades, nextId, net, issued, attVars, chatVars, taskVars>>

\* updateGrade up to its await: optimistic patch, then PUT
UpdateGradeCall(cell, gradeId, nv) ==
    /\ gradesData' =
          [gradesData EXCEPT !.cells =
             [c \in Cells |->
                IF gradesData.cells[c].id = gradeId
                THEN [gradesData.cells[c] EXCEPT !.points_earned = nv]
                ELSE gradesData.cells[c]]]
    /\ net' = Append(net, Req("PUT", selectedGradeClass, gradeId, cell, nv,
                              NullData, NoCommit))
    /\ issued' = issued + 1

\* createGrade up to its await: POST, closing over the rendered gradesData
CreateGradeCall(cell, nv) ==
    /\ gradesData' = gradesData
    /\ net' = Append(net, Req("POST", selectedGradeClass, 0, cell, nv,
                              gradesData, NoCommit))
    /\ issued' = issued + 1

\* mutant of OnBlur: every commit is a create, whatever the record's id
OnBlur_AlwaysCreate(cell) ==
    /\ TableShown
    /\ LET grade == gradesData.cells[cell]
           nv == NumValue(grade.points_earned)
       IN  IF OutOfRange(nv)
           THEN /\ ev' = Ev("onBlurRejected", cell, selectedGradeClass, nv, NoCommit)
                /\ UNCHANGED <<gradesData, net, issued>>
           ELSE IF ~ValueChanged(cell)
           THEN /\ ev' = Ev("onBlurNoChange", cell, selectedGradeClass, nv, NoCommit)
                /\ UNCHANGED <<gradesData, net, issued>>
           ELSE /\ CanIssue
                /\ CreateGradeCall(cell, nv)
                /\ ev' = Ev("onBlurCommit", cell, selectedGradeClass, nv, NoCommit)
    /\ UNCHANGED <<selectedGradeClass, originalGradesRef, loadingGrades, error,
                   srvGrades, nextId, attVars, chatVars, taskVars>>

\* grade-input onBlur
OnBlur(cell) ==
    /\ TableShown
    /\ LET grade == gradesData.cells[cell]
           nv == NumValue(grade.points_earned)
       IN  IF OutOfRange(nv)
           THEN /\ ev' = Ev("onBlurRejected", cell, selectedGradeClass, nv, NoCommit)
                /\ UNCHANGED <<gradesData, net, issued>>
           ELSE IF ~ValueChanged(cell)
           THEN /\ ev' = Ev("onBlurNoChange", cell, selectedGradeClass, nv, NoCommit)
                /\ UNCHANGED <<gradesData, net, issued>>
           ELSE /\ CanIssue
                /\ IF grade.id # 0
                   THEN UpdateGradeCall(cell, grade.id, nv)
                   ELSE CreateGradeCall(cell, nv)
                /\ ev' = Ev("onBlurCommit", cell, selectedGradeClass, nv, NoCommit)
    /\ UNCHANGED <<selectedGradeClass, originalGradesRef, loadingGrades, error,
                   srvGrades, nextId, attVars, chatVars, taskVars>>

\* fetchGrades resolves with a 2xx response
FetchGradesOk(i) ==
    /\ i \in 1..Len(net) /\ net[i].kind = "GET"
    /\ gradesData' = ServerData(net[i].cls)
    /\ originalGradesRef' = ServerData(net[i].cls)
    /\ error' = ""
    /\ loadingGrades' = FALSE
    /\ net' = Remove(net, i)
    /\ ev' = Ev("fetchGradesOk", NoCell, net[i].cls, Absent, net[i].awaitedBy)
    /\ UNCHANGED <<selectedGradeClass, srvGrades, nextId, issued, attVars, chatVars, taskVars>>

\* fetchGrades resolves with a network error or a non-2xx response
FetchGradesFail(i) ==
    /\ i \in 1..Len(net) /\ net[i].kind = "GET"
    /\ error' = "Failed to fetch grades"
    /\ gradesData' = NullData
    /\ originalGradesRef' = NullData
    /\ loadingGrades' = FALSE
    /\ net' = Remove(net, i)
    /\ ev' = Ev("fetchGradesFail", NoCell, net[i].cls, Absent, net[i].awaitedBy)
    /\ UNCHANGED <<selectedGradeClass, srvGrades, nextId, issued, attVars, chatVars, taskVars>>

\* the catch block of updateGrade / createGrade: setError, then
\* await fetchGrades(selectedGradeClass) with the class the handler closed over
CommitCatch(i, msg, op) ==
    /\ issued < MaxRequests
    /\ error' = msg
    /\ loadingGrades' = TRUE
    /\ net' = Append(Remove(net, i),
                     Req("GET", net[i].cls, 0, NoCell, Absent, NullData,
                         [cell |-> net[i].cell, points |-> net[i].points]))
    /\ issued' = issued + 1
    /\ ev' = Ev(op, net[i].cell, net[i].cls, net[i].points, NoCommit)
    /\ UNCHANGED <<selectedGradeClass, gradesData, originalGradesRef,
                   srvGrades, nextId, attVars, chatVars, taskVars>>

\* PUT /api/grades/{id} answers 2xx: setError(null) is all the handler does
UpdateGradeOk(i) ==
    /\ i \in 1..Len(net) /\ net[i].kind = "PUT"
    /\ srvGrades' =
          [c \in Classes |->
             [cell \in Cells |->
                IF srvGrades[c][cell].id = net[i].gradeId
                THEN [srvGrades[c][cell] EXCEPT !.points_earned = net[i].points]
                ELSE srvGrades[c][cell]]]
    /\ error' = ""
    /\ net' = Remove(net, i)
    /\ ev' = Ev("updateGradeOk", net[i].cell, net[i].cls, net[i].points, NoCommit)
    /\ UNCHANGED <<selectedGradeClass, gradesData, originalGradesRef,
                   loadingGrades, nextId, issued, attVars, chatVars, taskVars>>

\* PUT /api/grades/{id} fails
UpdateGradeFail(i) ==
    /\ i \in 1..Len(net) /\ net[i].kind = "PUT"
    /\ CommitCatch(i, "Failed to update grade", "updateGradeFail")

\* POST /api/grades answers 2xx with the created grade
CreateGradeOk(i) ==
    /\ i \in 1..Len(net) /\ net[i].kind = "POST"
    /\ LET newGrade == [id |-> nextId, points_earned |-> net[i].points] IN
          /\ srvGrades' = [srvGrades EXCEPT ![net[i].cls][net[i].cell] = newGrade]
          /\ gradesData' =
                IF IsNull(net[i].gd) THEN gradesData
                ELSE [net[i].gd EXCEPT !.cells[net[i].cell] = newGrade]
    /\ nextId' = nextId + 1
    /\ error' = ""
    /\ net' = Remove(net, i)
    /\ ev' = Ev("createGradeOk", net[i].cell, net[i].cls, net[i].points, NoCommit)
    /\ UNCHANGED <<selectedGradeClass, originalGradesRef, loadingGrades, issued,
                   attVars, chatVars, taskVars>>

\* POST /api/grades fails
CreateGradeFail(i) ==
    /\ i \in 1..Len(net) /\ net[i].kind = "POST"
    /\ CommitCatch(i, "Failed to create grade", "createGradeFail")

GMNext ==
    \/ \E c \in Classes \cup {NoClass} : SelectGradeClass(c)
    \/ \E cell \in Cells, v \in InputVals : OnChange(cell, v)
    \/ \E cell \in Cells : OnBlur(cell)
    \/ \E i \in 1..MaxInFlight : FetchGradesOk(i)
    \/ \E i \in 1..MaxInFlight : FetchGradesFail(i)
    \/ \E i \in 1..MaxInFlight : UpdateGradeOk(i)
    \/ \E i \in 1..MaxInFlight : UpdateGradeFail(i)
    \/ \E i \in 1..MaxInFlight : CreateGradeOk(i)
    \/ \E i \in 1..MaxInFlight : CreateGradeFail(i)

SpecGM == GMInit /\ [][GMNext]_vars

(***************************************************************************)
(* Attendance: AttendanceManager.tsx and the Dashboard of Login.tsx.       *)
(* The class selector stays at "All Students"; the scope is the date.      *)
(***************************************************************************)
\* the students that may have a record on the date that has records: all of
\* them, or all but one who joined the roster after the date was verified
RecordedSets == {Students, {1}}

\* the remote store at start: one date already has records, the other none
AttInit(persistedDate, recorded) ==
    /\ attendance = <<>>
    /\ selectedDate = 1
    /\ isVerified = FALSE
    /\ isVerifying = FALSE
    /\ loading = TRUE
    /\ srvAtt =
          [d \in Dates |->
             [s \in Students |->
                IF d = persistedDate /\ s \in recorded
                THEN [status |-> IF s = 1 THEN "present" ELSE "absent",
                      record_id |-> RecordIdOf(d, s)]
                ELSE NoRecord]]
    /\ error = ""
    /\ net = <<AReq("GETATT", 1, <<>>, 0, Unset, Unset, FALSE)>>
    /\ issued = 1
    /\ ev = AEv("mount", 1, 0, FALSE, <<>>)
    /\ GradesIdle
    /\ ChatIdle
    /\ TasksIdle

\* the state once the mount effect has run: first fetchAttendance outstanding
AMInit == \E d \in Dates, recorded \in RecordedSets : AttInit(d, recorded)

\* fetchAttendance up to its await, for the date the caller closed over;
\* submitted: the records of the verify call that asks for this refresh
FetchAttendanceCall(queue, d, refresh, submitted) ==
    /\ loading' = TRUE
    /\ net' = Append(queue, AReq("GETATT", d, submitted, 0, Unset, Unset, refresh))
    /\ issued' = issued + 1

\* date input onChange, then the effect on [selectedDate, selectedClass]
ChangeDate(d) ==
    /\ d # selectedDate
    /\ CanIssue
    /\ selectedDate' = d
    /\ isVerified' = FALSE
    /\ FetchAttendanceCall(net, d, FALSE, <<>>)
    /\ ev' = AEv("changeDate", d, 0, FALSE, <<>>)
    /\ UNCHANGED <<attendance, isVerifying, srvAtt, error, gmVars, chatVars, taskVars>>

\* mutant of FetchAttendanceApply: the default fill is applied to every load
FetchAttendanceApply_AlwaysFill(i, filled) ==
    /\ i \in 1..Len(net) /\ net[i].kind = "GETATT"
    /\ isVerified' = SomeRecord(AttendanceRows(net[i].date))
    /\ attendance' = filled
    /\ error' = ""
    /\ loading' = FALSE
    /\ net' = Remove(net, i)
    /\ ev' = AEv("fetchAttendanceOk", net[i].date, 0, net[i].refresh,
                net[i].records)
    /\ UNCHANGED <<selectedDate, isVerifying, srvAtt, issued, gmVars, chatVars, taskVars>>

\* fetchAttendance resolves with a 2xx response; fill is the default-fill
\* of the component (DefaultAttendance or AttendanceWithDefaults)
FetchAttendanceApply(i, filled) ==
    /\ i \in 1..Len(net) /\ net[i].kind = "GETATT"
    /\ LET data == AttendanceRows(net[i].date)
           verified == SomeRecord(data)
       IN  /\ isVerified' = verified
           /\ attendance' = IF ~verified THEN filled ELSE data
    /\ error' = ""
    /\ loading' = FALSE
    /\ net' = Remove(net, i)
    /\ ev' = AEv("fetchAttendanceOk", net[i].date, 0, net[i].refresh,
                net[i].records)
    /\ UNCHANGED <<selectedDate, isVerifying, srvAtt, issued, gmVars, chatVars, taskVars>>

\* AttendanceManager.fetchAttendance, 2xx
FetchAttendanceOk(i) ==
    /\ i \in 1..Len(net) /\ net[i].kind = "GETATT"
    /\ FetchAttendanceApply(i, DefaultAttendance(AttendanceRows(net[i].date)))

\* fetchAttendance resolves with a network error or a non-2xx response
FetchAttendanceFail(i) ==
    /\ i \in 1..Len(net) /\ net[i].kind = "GETATT"
    /\ error' = "Failed to fetch attendance"
    /\ loading' = FALSE
    /\ net' = Remove(net, i)
    /\ ev' = AEv("fetchAttendanceFail", net[i].date, 0, net[i].refresh, <<>>)
    /\ UNCHANGED <<attendance, selectedDate, isVerified, isVerifying, srvAtt,
                   issued, gmVars, chatVars, taskVars>>

\* AttendanceManager.toggleAttendanceStatus: a click on a rendered row
ToggleAttendanceStatus(studentId) ==
    /\ RowsShown
    /\ HasRow(studentId)
    /\ attendance' =
          WithStatus(attendance, studentId, NextStatus(RowOf(studentId).status))
    /\ ev' = AEv("toggle", selectedDate, studentId, FALSE, <<>>)
    /\ UNCHANGED <<selectedDate, isVerified, isVerifying, loading, srvAtt,
                   error, net, issued, gmVars, chatVars, taskVars>>

\* verifyAttendance up to its await
VerifyAttendance ==
    /\ CanIssue
    /\ isVerifying' = TRUE
    /\ net' = Append(net, AReq("VERIFY", selectedDate, RecordsOf(attendance),
                               0, Unset, Unset, FALSE))
    /\ issued' = issued + 1
    /\ ev' = AEv("verifyAttendance", selectedDate, 0, FALSE, RecordsOf(attendance))
    /\ UNCHANGED <<attendance, selectedDate, isVerified, loading, srvAtt, error,
                   gmVars, chatVars, taskVars>>

\* a click on the Verify button: disabled={isVerified || isVerifying}
ClickVerify ==
    /\ ~isVerified /\ ~isVerifying
    /\ VerifyAttendance

\* POST /api/attendance of verifyAttendance answers 2xx:
\* setIsVerified(true), fetchAttendance() not awaited, finally
VerifyOk(i) ==
    /\ i \in 1..Len(net) /\ net[i].kind = "VERIFY"
    /\ issued < MaxRequests
    /\ srvAtt' = StoreRecords(net[i].date, net[i].records)
    /\ isVerified' = TRUE
    /\ FetchAttendanceCall(Remove(net, i), net[i].date, TRUE, net[i].records)
    /\ isVerifying' = FALSE
    /\ ev' = AEv("verifyOk", net[i].date, 0, FALSE, net[i].records)
    /\ UNCHANGED <<attendance, selectedDate, error, gmVars, chatVars, taskVars>>

\* mutant of VerifyFail: the failure handler reverts the rows to the store's
VerifyFail_Revert(i) ==
    /\ i \in 1..Len(net) /\ net[i].kind = "VERIFY"
    /\ error' = "Failed to verify attendance"
    /\ isVerifying' = FALSE
    /\ attendance' = DefaultAttendance(AttendanceRows(net[i].date))
    /\ net' = Remove(net, i)
    /\ ev' = AEv("verifyFail", net[i].date, 0, FALSE, net[i].records)
    /\ UNCHANGED <<selectedDate, isVerified, loading, srvAtt, issued, gmVars, chatVars, taskVars>>

\* POST /api/attendance of verifyAttendance fails
VerifyFail(i) ==
    /\ i \in 1..Len(net) /\ net[i].kind = "VERIFY"
    /\ error' = "Failed to verify attendance"
    /\ isVerifying' = FALSE
    /\ net' = Remove(net, i)
    /\ ev' = AEv("verifyFail", net[i].date, 0, FALSE, net[i].records)
    /\ UNCHANGED <<attendance, selectedDate, isVerified, loading, srvAtt,
                   issued, gmVars, chatVars, taskVars>>

AMNext ==
    \/ \E d \in Dates : ChangeDate(d)
    \/ \E i \in 1..MaxInFlight : FetchAttendanceOk(i)
    \/ \E i \in 1..MaxInFlight : FetchAttendanceFail(i)
    \/ \E s \in Students : ToggleAttendanceStatus(s)
    \/ ClickVerify
    \/ \E i \in 1..MaxInFlight : VerifyOk(i)
    \/ \E i \in 1..MaxInFlight : VerifyFail(i)

SpecAM == AMInit /\ [][AMNext]_vars

\* verifyAttendance entered by a caller other than the button
CallVerifyAttendance ==
    /\ isVerified \/ isVerifying
    /\ VerifyAttendance

AMBoundaryNext == AMNext \/ CallVerifyAttendance

SpecAMBoundary == AMInit /\ [][AMBoundaryNext]_vars

(***************************************************************************)
(* Dashboard of Login.tsx: attendance with per-student auto-save           *)
(***************************************************************************)
\* Dashboard.fetchAttendance, 2xx
DashFetchAttendanceOk(i) ==
    /\ i \in 1..Len(net) /\ net[i].kind = "GETATT"
    /\ FetchAttendanceApply(i, AttendanceWithDefaults(AttendanceRows(net[i].date)))

\* Dashboard.toggleAttendanceStatus up to its await
DashToggleAttendanceStatus(studentId) ==
    /\ RowsShown
    /\ HasRow(studentId)
    /\ LET currentRow == RowOf(studentId)
           nextStatus == NextStatus(currentRow.status)
       IN  /\ attendance' = WithStatus(attendance, studentId, nextStatus)
           /\ IF isVerified
              THEN /\ CanIssue
                   /\ net' = Append(net, AReq("SAVEATT", selectedDate, <<>>,
                                              studentId, nextStatus,
                                              currentRow.status, FALSE))
                   /\ issued' = issued + 1
              ELSE UNCHANGED <<net, issued>>
    /\ ev' = AEv("toggle", selectedDate, studentId, FALSE, <<>>)
    /\ UNCHANGED <<selectedDate, isVerified, isVerifying, loading, srvAtt,
                   error, gmVars, chatVars, taskVars>>

\* the auto-save POST answers 2xx: the handler does nothing more
SaveAttendanceOk(i) ==
    /\ i \in 1..Len(net) /\ net[i].kind = "SAVEATT"
    /\ srvAtt' = StoreRecords(net[i].date,
                    <<[student_id |-> net[i].student, status |-> net[i].status]>>)
    /\ net' = Remove(net, i)
    /\ ev' = AEv("saveAttendanceOk", net[i].date, net[i].student, FALSE, <<>>)
    /\ UNCHANGED <<attendance, selectedDate, isVerified, isVerifying, loading,
                   error, issued, gmVars, chatVars, taskVars>>

\* the auto-save POST fails: revert to the status the handler closed over
SaveAttendanceFail(i) ==
    /\ i \in 1..Len(net) /\ net[i].kind = "SAVEATT"
    /\ attendance' = WithStatus(attendance, net[i].student, net[i].prev)
    /\ net' = Remove(net, i)
    /\ ev' = AEv("saveAttendanceFail", net[i].date, net[i].student, FALSE, <<>>)
    /\ UNCHANGED <<selectedDate, isVerified, isVerifying, loading, srvAtt,
                   error, issued, gmVars, chatVars, taskVars>>

DashNext ==
    \/ \E d \in Dates : ChangeDate(d)
    \/ \E i \in 1..MaxInFlight : DashFetchAttendanceOk(i)
    \/ \E i \in 1..MaxInFlight : FetchAttendanceFail(i)
    \/ \E s \in Students : DashToggleAttendanceStatus(s)
    \/ \E i \in 1..MaxInFlight : SaveAttendanceOk(i)
    \/ \E i \in 1..MaxInFlight : SaveAttendanceFail(i)
    \/ ClickVerify
    \/ \E i \in 1..MaxInFlight : VerifyOk(i)
    \/ \E i \in 1..MaxInFlight : VerifyFail(i)

SpecDash == AMInit /\ [][DashNext]_vars

(***************************************************************************)
(* Dashboard of Login.tsx: the grades tab.  There is no snapshot and no    *)
(* local edit: onChange sends the typed value, and the table changes when  *)
(* the reload that follows a successful PUT is applied.                    *)
(***************************************************************************)
\* the grades tab before a class is chosen
DGInit ==
    /\ selectedGradeClass = NoClass
    /\ gradesData = NullData
    /\ originalGradesRef = NullData
    /\ loadingGrades = FALSE
    /\ error = ""
    /\ \E p \in InitPoints :
          srvGrades =
            [c \in Classes |->
               [cell \in Cells |->
                  IF cell = PersistedCell
                  THEN [id |-> c,
                        points_earned |-> IF c = FirstClass THEN p ELSE Num(900)]
                  ELSE NoGrade]]
    /\ nextId = 3
    /\ net = <<>>
    /\ issued = 0
    /\ ev = Ev("mount", NoCell, NoClass, Absent, NoCommit)
    /\ AttendanceIdle
    /\ ChatIdle
    /\ TasksIdle

\* selectedGradeClass ? loadingGrades ? ... : gradesData ? table
DashTableShown ==
    selectedGradeClass # NoClass /\ ~loadingGrades /\ ~IsNull(gradesData)

\* <select onChange>, then the effect on [selectedGradeClass]
DashSelectGradeClass(c) ==
    /\ c # selectedGradeClass
    /\ selectedGradeClass' = c
    /\ IF c # NoClass
       THEN /\ CanIssue
            /\ FetchGradesCall(c, NoCommit)
            /\ gradesData' = gradesData
       ELSE /\ gradesData' = NullData
            /\ UNCHANGED <<loadingGrades, net, issued>>
    /\ ev' = Ev("selectClass", NoCell, c, Absent, NoCommit)
    /\ UNCHANGED <<originalGradesRef, error, srvGrades, nextId, attVars, chatVars, taskVars>>

\* Dashboard grade-input onChange: updateGrade(grade.id, value) up to its await
DashOnChange(cell, v) ==
    /\ DashTableShown
    /\ IF gradesData.cells[cell].id # 0
       THEN /\ CanIssue
            /\ net' = Append(net, Req("PUT", selectedGradeClass,
                                      gradesData.cells[cell].id, cell, v,
                                      NullData, NoCommit))
            /\ issued' = issued + 1
       ELSE UNCHANGED <<net, issued>>
    /\ ev' = Ev("dashOnChange", cell, selectedGradeClass, v, NoCommit)
    /\ UNCHANGED <<selectedGradeClass, gradesData, originalGradesRef,
                   loadingGrades, error, srvGrades, nextId, attVars, chatVars, taskVars>>

\* Dashboard.fetchGrades resolves with a 2xx response
DashFetchGradesOk(i) ==
    /\ i \in 1..Len(net) /\ net[i].kind = "GET"
    /\ gradesData' = ServerData(net[i].cls)
    /\ error' = ""
    /\ loadingGrades' = FALSE
    /\ net' = Remove(net, i)
    /\ ev' = Ev("fetchGradesOk", NoCell, net[i].cls, Absent, net[i].awaitedBy)
    /\ UNCHANGED <<selectedGradeClass, originalGradesRef, srvGrades, nextId,
                   issued, attVars, chatVars, taskVars>>

\* Dashboard.fetchGrades resolves with a network error or a non-2xx response
DashFetchGradesFail(i) ==
    /\ i \in 1..Len(net) /\ net[i].kind = "GET"
    /\ error' = "Failed to fetch grades"
    /\ gradesData' = NullData
    /\ loadingGrades' = FALSE
    /\ net' = Remove(net, i)
    /\ ev' = Ev("fetchGradesFail", NoCell, net[i].cls, Absent, net[i].awaitedBy)
    /\ UNCHANGED <<selectedGradeClass, originalGradesRef, srvGrades, nextId,
                   issued, attVars, chatVars, taskVars>>

\* Dashboard.updateGrade: the PUT answers 2xx, then
\* await fetchGrades(selectedGradeClass) with the class it closed over
DashUpdateGradeOk(i) ==
    /\ i \in 1..Len(net) /\ net[i].kind = "PUT"
    /\ issued < MaxRequests
    /\ srvGrades' =
          [c \in Classes |->
             [cell \in Cells |->
                IF srvGrades[c][cell].id = net[i].gradeId
                THEN [srvGrades[c][cell] EXCEPT !.points_earned = net[i].points]
                ELSE srvGrades[c][cell]]]
    /\ loadingGrades' = TRUE
    /\ net' = Append(Remove(net, i),
                     Req("GET", net[i].cls, 0, NoCell, Absent, NullData,
                         [cell |-> net[i].cell, points |-> net[i].points]))
    /\ issued' = issued + 1
    /\ ev' = Ev("updateGradeOk", net[i].cell, net[i].cls, net[i].points, NoCommit)
    /\ UNCHANGED <<selectedGradeClass, gradesData, originalGradesRef, error,
                   nextId, attVars, chatVars, taskVars>>

\* Dashboard.updateGrade: the PUT fails, the catch sets the error
DashUpdateGradeFail(i) ==
    /\ i \in 1..Len(net) /\ net[i].kind = "PUT"
    /\ error' = "Failed to update grade"
    /\ net' = Remove(net, i)
    /\ ev' = Ev("updateGradeFail", net[i].cell, net[i].cls, net[i].points, NoCommit)
    /\ UNCHANGED <<selectedGradeClass, gradesData, originalGradesRef,
                   loadingGrades, srvGrades, nextId, issued, attVars, chatVars, taskVars>>

\* what the user can type into a Dashboard grade input: also a negative number
DashInputVals == InputVals \cup {Num(-10)}

DGNext ==
    \/ \E c \in Classes \cup {NoClass} : DashSelectGradeClass(c)
    \/ \E cell \in Cells, v \in DashInputVals : DashOnChange(cell, v)
    \/ \E i \in 1..MaxInFlight : DashFetchGradesOk(i)
    \/ \E i \in 1..MaxInFlight : DashFetchGradesFail(i)
    \/ \E i \in 1..MaxInFlight : DashUpdateGradeOk(i)
    \/ \E i \in 1..MaxInFlight : DashUpdateGradeFail(i)

SpecDashGrades == DGInit /\ [][DGNext]_vars

(***************************************************************************)
(* Chat (src/frontend/src/components/Chat.tsx)                             *)
(***************************************************************************)
ChatInit ==
    /\ ChatIdle
    /\ error = ""
    /\ net = <<>>
    /\ issued = 0
    /\ ev = ChatEv("mount")
    /\ GradesIdle
    /\ AttendanceIdle
    /\ TasksIdle

\* textarea onChange; the textarea is disabled={isLoading}
ChatOnChange(v) ==
    /\ ~isLoading
    /\ inputValue' = v
    /\ ev' = ChatEv("onChange")
    /\ UNCHANGED <<messages, isLoading, error, net, issued, gmVars, attVars,
                   taskVars>>

\* sendMessage up to its await, from the button or from Enter
SendMessage ==
    /\ IF Trim(inputValue) = <<>> \/ isLoading
       THEN /\ ev' = ChatEv("sendMessageReturn")
            /\ UNCHANGED <<messages, inputValue, isLoading, net, issued>>
       ELSE /\ CanIssue
            /\ messages' = Append(messages, Message("user", Trim(inputValue)))
            /\ inputValue' = <<>>
            /\ isLoading' = TRUE
            /\ net' = Append(net, [kind |-> "CHAT", message |-> Trim(inputValue)])
            /\ issued' = issued + 1
            /\ ev' = ChatEv("sendMessage")
    /\ UNCHANGED <<error, gmVars, attVars, taskVars>>

\* POST /api/chat answers 2xx: the ai message, then finally
ChatOk(i) ==
    /\ i \in 1..Len(net) /\ net[i].kind = "CHAT"
    /\ \E response \in Replies :
          messages' = Append(messages, Message("ai", response))
    /\ isLoading' = FALSE
    /\ net' = Remove(net, i)
    /\ ev' = ChatEv("chatOk")
    /\ UNCHANGED <<inputValue, error, issued, gmVars, attVars, taskVars>>

\* mutant of ChatFail: the catch block appends no message
ChatFail_Silent(i) ==
    /\ i \in 1..Len(net) /\ net[i].kind = "CHAT"
    /\ isLoading' = FALSE
    /\ net' = Remove(net, i)
    /\ ev' = ChatEv("chatFail")
    /\ UNCHANGED <<messages, inputValue, error, issued, gmVars, attVars,
                   taskVars>>

\* POST /api/chat fails: the catch block's message, then finally
ChatFail(i) ==
    /\ i \in 1..Len(net) /\ net[i].kind = "CHAT"
    /\ messages' = Append(messages, Message("ai", ErrorReply))
    /\ isLoading' = FALSE
    /\ net' = Remove(net, i)
    /\ ev' = ChatEv("chatFail")
    /\ UNCHANGED <<inputValue, error, issued, gmVars, attVars, taskVars>>

ChatNext ==
    \/ \E v \in ChatInputs : ChatOnChange(v)
    \/ SendMessage
    \/ \E i \in 1..MaxInFlight : ChatOk(i)
    \/ \E i \in 1..MaxInFlight : ChatFail(i)

SpecChat == ChatInit /\ [][ChatNext]_vars

(***************************************************************************)
(* TaskManager (src/frontend/src/components/TaskManager.tsx), as a teacher *)
(***************************************************************************)
\* the state once the mount effect has run: fetchTasks outstanding
TMInit ==
    /\ tasks = <<>>
    /\ tasksLoading = TRUE
    /\ showCreateForm = FALSE
    /\ editingTask = NoTask
    /\ formData = EmptyForm
    /\ srvTasks = InitialTasks
    /\ nextTaskId = 3
    /\ error = ""
    /\ net = <<TReq("GETTASKS", 0, EmptyForm)>>
    /\ issued = 1
    /\ ev = TaskEv("mount", 0)
    /\ GradesIdle
    /\ AttendanceIdle
    /\ ChatIdle

\* fetchTasks resolves with a 2xx response
FetchTasksOk(i) ==
    /\ i \in 1..Len(net) /\ net[i].kind = "GETTASKS"
    /\ tasks' = srvTasks
    /\ error' = ""
    /\ tasksLoading' = FALSE
    /\ net' = Remove(net, i)
    /\ ev' = TaskEv("fetchTasksOk", 0)
    /\ UNCHANGED <<showCreateForm, editingTask, formData, srvTasks, nextTaskId,
                   issued, gmVars, attVars, chatVars>>

\* fetchTasks fails
FetchTasksFail(i) ==
    /\ i \in 1..Len(net) /\ net[i].kind = "GETTASKS"
    /\ error' \in FailureMessages("Failed to fetch tasks")
    /\ tasksLoading' = FALSE
    /\ net' = Remove(net, i)
    /\ ev' = TaskEv("fetchTasksFail", 0)
    /\ UNCHANGED <<tasks, showCreateForm, editingTask, formData, srvTasks,
                   nextTaskId, issued, gmVars, attVars, chatVars>>

\* the New Task button
OpenCreateForm ==
    /\ TasksShown
    /\ ~showCreateForm
    /\ showCreateForm' = TRUE
    /\ ev' = TaskEv("openCreateForm", 0)
    /\ UNCHANGED <<tasks, tasksLoading, editingTask, formData, srvTasks,
                   nextTaskId, error, net, issued, gmVars, attVars, chatVars>>

\* the title input and the status select of the form
SetFormData(title, status) ==
    /\ TasksShown
    /\ showCreateForm
    /\ formData' = [title |-> title, status |-> status]
    /\ ev' = TaskEv("setFormData", 0)
    /\ UNCHANGED <<tasks, tasksLoading, showCreateForm, editingTask, srvTasks,
                   nextTaskId, error, net, issued, gmVars, attVars, chatVars>>

\* startEdit(task), from the edit button of a listed task
StartEdit(k) ==
    /\ TasksShown
    /\ k \in 1..Len(tasks)
    /\ editingTask' = tasks[k]
    /\ formData' = [title |-> tasks[k].title, status |-> tasks[k].status]
    /\ showCreateForm' = TRUE
    /\ ev' = TaskEv("startEdit", tasks[k].id)
    /\ UNCHANGED <<tasks, tasksLoading, srvTasks, nextTaskId, error, net,
                   issued, gmVars, attVars, chatVars>>

\* resetForm
ResetForm ==
    /\ editingTask' = NoTask
    /\ formData' = EmptyForm
    /\ showCreateForm' = FALSE

\* the Cancel button
CancelForm ==
    /\ TasksShown
    /\ showCreateForm
    /\ ResetForm
    /\ ev' = TaskEv("resetForm", 0)
    /\ UNCHANGED <<tasks, tasksLoading, srvTasks, nextTaskId, error, net,
                   issued, gmVars, attVars, chatVars>>

\* createTask up to its await
CreateTask ==
    /\ net' = Append(net, TReq("POSTTASK", 0, formData))
    /\ issued' = issued + 1
    /\ ev' = TaskEv("createTask", 0)

\* updateTask up to its await
UpdateTask ==
    IF editingTask = NoTask
    THEN /\ ev' = TaskEv("updateTaskReturn", 0)
         /\ UNCHANGED <<net, issued>>
    ELSE /\ net' = Append(net, TReq("PUTTASK", editingTask.id, formData))
         /\ issued' = issued + 1
         /\ ev' = TaskEv("updateTask", editingTask.id)

\* the submit button: onClick={editingTask ? updateTask : createTask},
\* disabled={!formData.title.trim()}
SubmitForm ==
    /\ TasksShown
    /\ showCreateForm
    /\ Trim(formData.title) # <<>>
    /\ CanIssue
    /\ IF editingTask # NoTask THEN UpdateTask ELSE CreateTask
    /\ UNCHANGED <<tasks, tasksLoading, showCreateForm, editingTask, formData,
                   srvTasks, nextTaskId, error, gmVars, attVars, chatVars>>

\* deleteTask up to its await; confirmed: the answer to window.confirm
DeleteTask(k, confirmed) ==
    /\ TasksShown
    /\ k \in 1..Len(tasks)
    /\ IF ~confirmed
       THEN /\ ev' = TaskEv("deleteTaskReturn", tasks[k].id)
            /\ UNCHANGED <<net, issued>>
       ELSE /\ CanIssue
            /\ net' = Append(net, TReq("DELETETASK", tasks[k].id, EmptyForm))
            /\ issued' = issued + 1
            /\ ev' = TaskEv("deleteTask", tasks[k].id)
    /\ UNCHANGED <<tasks, tasksLoading, showCreateForm, editingTask, formData,
                   srvTasks, nextTaskId, error, gmVars, attVars, chatVars>>

\* quickUpdateStatus up to its await: the complete button of a task that is
\* not completed, the start button of a task that is todo
QuickUpdateStatus(k, status) ==
    /\ TasksShown
    /\ k \in 1..Len(tasks)
    /\ \/ status = "completed" /\ tasks[k].status # "completed"
       \/ status = "in_progress" /\ tasks[k].status = "todo"
    /\ CanIssue
    /\ net' = Append(net, TReq("PUTSTATUS", tasks[k].id,
                               [title |-> <<>>, status |-> status]))
    /\ issued' = issued + 1
    /\ ev' = TaskEv("quickUpdateStatus", tasks[k].id)
    /\ UNCHANGED <<tasks, tasksLoading, showCreateForm, editingTask, formData,
                   srvTasks, nextTaskId, error, gmVars, attVars, chatVars>>

\* POST /api/tasks answers 2xx with the created task
CreateTaskOk(i) ==
    /\ i \in 1..Len(net) /\ net[i].kind = "POSTTASK"
    /\ LET newTask == [id |-> nextTaskId, title |-> net[i].payload.title,
                       status |-> net[i].payload.status]
       IN  /\ srvTasks' = <<newTask>> \o srvTasks
           /\ tasks' = <<newTask>> \o tasks
    /\ nextTaskId' = nextTaskId + 1
    /\ ResetForm
    /\ net' = Remove(net, i)
    /\ ev' = TaskEv("createTaskOk", nextTaskId)
    /\ UNCHANGED <<tasksLoading, error, issued, gmVars, attVars, chatVars>>

\* a task request fails: the catch block sets the error and nothing else
TaskRequestFail(i, notOk, op) ==
    /\ error' \in FailureMessages(notOk)
    /\ net' = Remove(net, i)
    /\ ev' = TaskEv(op, net[i].id)
    /\ UNCHANGED <<tasks, tasksLoading, showCreateForm, editingTask, formData,
                   srvTasks, nextTaskId, issued, gmVars, attVars, chatVars>>

\* POST /api/tasks fails
CreateTaskFail(i) ==
    /\ i \in 1..Len(net) /\ net[i].kind = "POSTTASK"
    /\ TaskRequestFail(i, "Failed to create task", "createTaskFail")

\* PUT /api/tasks/{id} of updateTask answers 2xx with the updated task
UpdateTaskOk(i) ==
    /\ i \in 1..Len(net) /\ net[i].kind = "PUTTASK"
    /\ OnServer(net[i].id)
    /\ LET updatedTask == [id |-> net[i].id, title |-> net[i].payload.title,
                           status |-> net[i].payload.status]
       IN  /\ srvTasks' = ReplaceTask(srvTasks, updatedTask)
           /\ tasks' = ReplaceTask(tasks, updatedTask)
    /\ ResetForm
    /\ net' = Remove(net, i)
    /\ ev' = TaskEv("updateTaskOk", net[i].id)
    /\ UNCHANGED <<tasksLoading, nextTaskId, error, issued, gmVars, attVars,
                   chatVars>>

\* PUT /api/tasks/{id} of updateTask fails
UpdateTaskFail(i) ==
    /\ i \in 1..Len(net) /\ net[i].kind = "PUTTASK"
    /\ TaskRequestFail(i, "Failed to update task", "updateTaskFail")

\* DELETE /api/tasks/{id} answers 2xx
DeleteTaskOk(i) ==
    /\ i \in 1..Len(net) /\ net[i].kind = "DELETETASK"
    /\ OnServer(net[i].id)
    /\ srvTasks' = WithoutTask(srvTasks, net[i].id)
    /\ tasks' = WithoutTask(tasks, net[i].id)
    /\ net' = Remove(net, i)
    /\ ev' = TaskEv("deleteTaskOk", net[i].id)
    /\ UNCHANGED <<tasksLoading, showCreateForm, editingTask, formData,
                   nextTaskId, error, issued, gmVars, attVars, chatVars>>

\* DELETE /api/tasks/{id} fails
DeleteTaskFail(i) ==
    /\ i \in 1..Len(net) /\ net[i].kind = "DELETETASK"
    /\ TaskRequestFail(i, "Failed to delete task", "deleteTaskFail")

\* PUT /api/tasks/{id} of quickUpdateStatus answers 2xx with the updated task
QuickUpdateStatusOk(i) ==
    /\ i \in 1..Len(net) /\ net[i].kind = "PUTSTATUS"
    /\ OnServer(net[i].id)
    /\ LET updatedTask ==
              [ServerTask(net[i].id) EXCEPT !.status = net[i].payload.status]
       IN  /\ srvTasks' = ReplaceTask(srvTasks, updatedTask)
           /\ tasks' = ReplaceTask(tasks, updatedTask)
    /\ net' = Remove(net, i)
    /\ ev' = TaskEv("quickUpdateStatusOk", net[i].id)
    /\ UNCHANGED <<tasksLoading, showCreateForm, editingTask, formData,
                   nextTaskId, error, issued, gmVars, attVars, chatVars>>

\* PUT /api/tasks/{id} of quickUpdateStatus fails
QuickUpdateStatusFail(i) ==
    /\ i \in 1..Len(net) /\ net[i].kind = "PUTSTATUS"
    /\ TaskRequestFail(i, "Failed to update task status",
                       "quickUpdateStatusFail")

TMNext ==
    \/ \E i \in 1..MaxInFlight : FetchTasksOk(i)
    \/ \E i \in 1..MaxInFlight : FetchTasksFail(i)
    \/ OpenCreateForm
    \/ \E title \in TitleInputs, status \in FormStatuses :
          SetFormData(title, status)
    \/ \E k \in 1..Len(tasks) : StartEdit(k)
    \/ CancelForm
    \/ SubmitForm
    \/ \E k \in 1..Len(tasks), confirmed \in BOOLEAN : DeleteTask(k, confirmed)
    \/ \E k \in 1..Len(tasks), status \in QuickStatuses :
          QuickUpdateStatus(k, status)
    \/ \E i \in 1..MaxInFlight : CreateTaskOk(i)
    \/ \E i \in 1..MaxInFlight : CreateTaskFail(i)
    \/ \E i \in 1..MaxInFlight : UpdateTaskOk(i)
    \/ \E i \in 1..MaxInFlight : UpdateTaskFail(i)
    \/ \E i \in 1..MaxInFlight : DeleteTaskOk(i)
    \/ \E i \in 1..MaxInFlight : DeleteTaskFail(i)
    \/ \E i \in 1..MaxInFlight : QuickUpdateStatusOk(i)
    \/ \E i \in 1..MaxInFlight : QuickUpdateStatusFail(i)

SpecTasks == TMInit /\ [][TMNext]_vars

(***************************************************************************)
(* Claims                                                                  *)
(***************************************************************************)
BlurOps == {"onBlurRejected", "onBlurNoChange", "onBlurCommit"}
CommitResponseOps ==
    {"updateGradeOk", "updateGradeFail", "createGradeOk", "createGradeFail"}

\* the snapshot value at the precision the commit persists
RoundedSnapshot(cell) == NumValue(OriginalPoints(cell))

\* C1: once a failed per-student attendance auto-save has returned, with no
\* other request outstanding and the row on display being the stored record
\* of the selected date, the row's displayed status is the status the remote
\* store holds for it.
C1_RevertLaw ==
    (/\ ev.op = "saveAttendanceFail"
     /\ ev.date = selectedDate
     /\ net = <<>>
     /\ HasRow(ev.student)
     /\ RowOf(ev.student).record_id = RecordIdOf(selectedDate, ev.student)
     /\ srvAtt[selectedDate][ev.student].record_id
           = RecordIdOf(selectedDate, ev.student))
    => RowOf(ev.student).status = srvAtt[selectedDate][ev.student].status

\* C2: a blur of a grade cell whose local value equals its snapshot value
\* issues no network call.
C2_IdempotentCommit ==
    [][\A cell \in Cells :
          (/\ TableShown
           /\ gradesData.cells[cell].points_earned = OriginalPoints(cell)
           /\ ev'.op \in BlurOps
           /\ ev'.cell = cell)
          => net' = net]_vars

\* C3: a blur of a grade cell whose valid local value differs from its
\* snapshot value (both at the persisted precision) issues exactly one
\* write, for that cell.
C3_DirtyCommitWritesOnce ==
    [][\A cell \in Cells :
          (/\ TableShown
           /\ ~OutOfRange(NumValue(gradesData.cells[cell].points_earned))
           /\ NumValue(gradesData.cells[cell].points_earned)
                 # RoundedSnapshot(cell)
           /\ ev'.op \in BlurOps
           /\ ev'.cell = cell)
          => /\ Len(net') = Len(net) + 1
             /\ net'[Len(net')].kind \in {"PUT", "POST"}
             /\ net'[Len(net')].cell = cell]_vars

\* C4: right after a grade commit for the displayed class has succeeded,
\* the snapshot value of the cell is the value that was written.
C4_SnapshotAdvances ==
    (/\ ev.op \in {"updateGradeOk", "createGradeOk"}
     /\ ev.cls = selectedGradeClass
     /\ ~IsNull(originalGradesRef)
     /\ originalGradesRef.class = ev.cls)
    => OriginalPoints(ev.cell) = ev.points

\* C5: at most one write (create or update) is outstanding for a grade cell.
C5_OneInFlightPerKey ==
    \A cell \in Cells : Cardinality(Writes(cell)) <= 1

\* C6: once the selected class's collection is loaded and on display, the
\* response of a grade commit issued under another class neither changes
\* the displayed collection nor starts a load.
C6_LateCommitDiscarded ==
    [][(/\ ~IsNull(gradesData)
        /\ gradesData.class = selectedGradeClass
        /\ Loads = {}
        /\ ev'.op \in CommitResponseOps
        /\ ev'.cls # selectedGradeClass)
       => /\ gradesData' = gradesData
          /\ Len(net') < Len(net)]_vars

\* C7: whenever no load is outstanding, the displayed grades collection is
\* the one of the selected class.
C7_StaleLoadDiscarded ==
    (Loads = {} /\ ~IsNull(gradesData))
    => gradesData.class = selectedGradeClass

\* C8: a load or verify response that belongs to a date other than the
\* selected one never turns the verification state from draft to verified.
C8_NoStaleVerified ==
    [][(/\ ev'.op \in {"fetchAttendanceOk", "verifyOk"}
        /\ ev'.date # selectedDate
        /\ ~isVerified)
       => ~isVerified']_vars

\* C9: verifyAttendance entered while the scope is verified issues no
\* network write and changes no state.
C9_VerifyGuarded ==
    [][(ev'.op = "verifyAttendance" /\ isVerified)
       => UNCHANGED <<attendance, selectedDate, isVerified, isVerifying,
                      loading, error, net>>]_vars

\* C10: (a) after a load of a date with no persisted record, every row whose
\* fetched status is unset shows present; (b) once the refresh issued by a
\* successful verify of at least one record is applied, the scope is
\* verified and every row has a record_id.
C10_ScenarioA ==
    /\ (ev.op = "fetchAttendanceOk" /\ ~SomeRecord(AttendanceRows(ev.date)))
       => \A k \in 1..Len(attendance) :
             AttendanceRows(ev.date)[k].status = Unset
                => attendance[k].status = "present"
    /\ (ev.op = "fetchAttendanceOk" /\ ev.refresh /\ Len(ev.records) > 0)
       => /\ isVerified
          /\ Len(attendance) > 0
          /\ \A k \in 1..Len(attendance) : attendance[k].record_id # 0

\* C10 witness: a date loaded with no record, its rows defaulted to present,
\* verified as such, and the refresh applied
C10_Witness ==
    /\ ev.op = "fetchAttendanceOk" /\ ev.refresh
    /\ Len(ev.records) = Len(Roster)
    /\ \A k \in 1..Len(ev.records) : ev.records[k].status = "present"
    /\ isVerified
    /\ Len(attendance) = Len(Roster)
    /\ \A k \in 1..Len(attendance) :
          /\ attendance[k].record_id # 0
          /\ attendance[k].status = "present"

\* C11: when the write issued by verify fails, the handler leaves verifying,
\* does not turn a draft scope verified, surfaces an error, and leaves every
\* row (local status and record_id) exactly as it was.
C11_ScenarioB ==
    [][ev'.op = "verifyFail"
       => /\ ~isVerifying'
          /\ (~isVerified => ~isVerified')
          /\ error' # ""
          /\ attendance' = attendance]_vars

\* C11 witness: a verify of unpersisted rows the user has edited has failed;
\* the scope is draft, the error is set, and the rows still hold the
\* statuses that were submitted, so the button sends them again
C11_Witness ==
    /\ ev.op = "verifyFail"
    /\ ~isVerified /\ ~isVerifying
    /\ error # ""
    /\ Len(attendance) = Len(Roster)
    /\ ev.records = RecordsOf(attendance)
    /\ \E k \in 1..Len(attendance) :
          attendance[k].record_id = 0 /\ attendance[k].status = "absent"

\* C12: a blur that commits a grade cell issues exactly one request: a PUT
\* to the record's id if and only if the record held in state has an id,
\* otherwise a POST for the cell; and when a POST answers 2xx the id the
\* store returned is stored on the cell's record.
C12_CreateVersusUpdate ==
    [][/\ \A cell \in Cells :
            (ev'.op = "onBlurCommit" /\ ev'.cell = cell)
            => /\ Len(net') = Len(net) + 1
               /\ SubSeq(net', 1, Len(net)) = net
               /\ LET r == net'[Len(net')]
                      id == gradesData.cells[cell].id
                  IN  /\ r.kind \in {"PUT", "POST"}
                      /\ r.cell = cell
                      /\ r.kind = "PUT" <=> id # 0
                      /\ r.kind = "PUT" => r.gradeId = id
       /\ ev'.op = "createGradeOk"
            => /\ gradesData'.cells[ev'.cell].id = nextId
               /\ srvGrades'[ev'.cls][ev'.cell].id = nextId]_vars

\* C12 witness: a cell without a record was committed by a POST, the POST
\* has answered, and the cell's record now carries the returned id
C12_Witness ==
    /\ ev.op = "createGradeOk"
    /\ ev.cell # PersistedCell
    /\ IsNum(ev.points)
    /\ gradesData.cells[ev.cell].id = nextId - 1
    /\ gradesData.cells[ev.cell].id # 0

\* C13: a local edit of a grade cell (a keystroke handled by onChange)
\* issues no network request and leaves the snapshot unchanged.
C13_LocalEditsNeverWrite ==
    [][ev'.op \in {"onChange", "dashOnChange"}
       => /\ net' = net
          /\ originalGradesRef' = originalGradesRef
          /\ srvGrades' = srvGrades]_vars

\* C14: right after fetchGrades has applied a 2xx response, every cell's
\* local value equals its snapshot value and no cell is dirty, that is, the
\* change detection of onBlur finds no change to write.
C14_CleanAfterLoad ==
    ev.op = "fetchGradesOk"
    => \A cell \in Cells :
          /\ gradesData.cells[cell].points_earned = OriginalPoints(cell)
          /\ ~ValueChanged(cell)

\* C15: when a load of grades fails while a collection is held, the
\* collection and its snapshot are left as they were and an error is set.
C15_FailedLoadUntouched ==
    [][(ev'.op = "fetchGradesFail" /\ ~IsNull(gradesData))
       => /\ gradesData' = gradesData
          /\ originalGradesRef' = originalGradesRef
          /\ error' # ""]_vars

\* C16: once onBlur has rejected an out-of-range input of a grade cell, the
\* local value held in state for the cell is no longer the rejected input:
\* it is absent or within the bounds, as it was before the input was typed.
C16_Bounds ==
    ev.op = "onBlurRejected"
    => ~OutOfRange(NumValue(gradesData.cells[ev.cell].points_earned))

\* [0, maxPoints] of the cell's assignment, absent included
WithinBounds(p) ==
    ~IsNum(p) \/ (Val(p) >= 0 /\ Val(p) <= max_points * Tenths)

\* C17: every outstanding create or update request carries a points value
\* that is absent or within [0, max_points] of the cell's assignment.
C17_ValidationNeverReachesNetwork ==
    \A i \in 1..Len(net) :
        net[i].kind \in {"PUT", "POST"} => WithinBounds(net[i].points)

\* the status a row shows after five clicks on it, nothing else happening
CycleFiveTimes(status) ==
    NextStatus(NextStatus(NextStatus(NextStatus(NextStatus(status)))))

\* C18: for every status a displayed attendance row holds, applying the
\* cycle of toggleAttendanceStatus five times gives that status again.
C18_CycleTotality ==
    \A k \in 1..Len(attendance) :
        CycleFiveTimes(attendance[k].status) = attendance[k].status

\* the cycle order the claim states
ClaimedCycle == <<"present", "absent", "tardy", "excused", Unset>>
ClaimedNext(status) ==
    LET k == CHOOSE j \in 1..Len(ClaimedCycle) : ClaimedCycle[j] = status
    IN  ClaimedCycle[(k % Len(ClaimedCycle)) + 1]

\* C19: one click on a row maps present to absent, absent to tardy, tardy
\* to excused, excused to unset and unset to present, for the clicked
\* student's row.
C19_CycleOrder ==
    [][\A s \in Students :
          (ev'.op = "toggle" /\ ev'.student = s)
          => \E k \in 1..Len(attendance) :
                /\ attendance[k].student_id = s
                /\ attendance'[k].status = ClaimedNext(attendance[k].status)]_vars

\* the status a row shows after four clicks on it, nothing else happening
CycleFourTimes(status) ==
    NextStatus(NextStatus(NextStatus(NextStatus(status))))

\* C18 as amended: for every status a displayed row holds among present,
\* absent, tardy and excused, applying the cycle four times gives that
\* status again; an unset row enters the cycle at present and is back at
\* present, not at unset, after five applications.
C18_CycleTotalityAmended ==
    \A k \in 1..Len(attendance) :
        LET status == attendance[k].status IN
        /\ status # Unset => CycleFourTimes(status) = status
        /\ status = Unset => CycleFiveTimes(status) = "present"

\* C18 witness: with the mount's load the only request ever issued, a
\* stored row has been clicked its way round the cycle and the last click
\* brought it back to the status that was loaded
C18_Witness ==
    /\ ev.op = "toggle"
    /\ issued = 1 /\ net = <<>>
    /\ HasRow(ev.student)
    /\ RowOf(ev.student).record_id # 0
    /\ RowOf(ev.student).status = srvAtt[selectedDate][ev.student].status

\* the order the code cycles in
AmendedNext(status) ==
    CASE status = "present" -> "absent"
      [] status = "absent" -> "tardy"
      [] status = "tardy" -> "excused"
      [] status = "excused" -> "present"
      [] OTHER -> "present"

\* C19 as amended: one click on a row maps present to absent, absent to
\* tardy, tardy to excused, excused to present and unset to present, for
\* the clicked student's row.
C19_CycleOrderAmended ==
    [][\A s \in Students :
          (ev'.op = "toggle" /\ ev'.student = s)
          => \E k \in 1..Len(attendance) :
                /\ attendance[k].student_id = s
                /\ attendance'[k].status = AmendedNext(attendance[k].status)]_vars

\* C19 witness: a row that was loaded without a status, as unset, has been
\* clicked and shows present
C19_Witness ==
    /\ ev.op = "toggle"
    /\ issued = 1 /\ net = <<>>
    /\ isVerified
    /\ HasRow(ev.student)
    /\ RowOf(ev.student).record_id = 0
    /\ srvAtt[selectedDate][ev.student].status = Unset
    /\ RowOf(ev.student).status = "present"

\* C20: right after fetchAttendance has applied a 2xx response, if no
\* returned row has a record_id every row shows present, none unset; if some
\* returned row has a record_id every row shows exactly the fetched status
\* and the scope is shown verified.
C20_DefaultFill ==
    ev.op = "fetchAttendanceOk"
    => LET data == AttendanceRows(ev.date) IN
       /\ Len(attendance) = Len(data)
       /\ ~SomeRecord(data)
            => /\ ~isVerified
               /\ \A k \in 1..Len(attendance) : attendance[k].status = "present"
       /\ SomeRecord(data)
            => /\ isVerified
               /\ \A k \in 1..Len(attendance) :
                     attendance[k].status = data[k].status

\* C20 witness: a date on which one student has a record and another has
\* none has been loaded: the scope is verified and the row without a record
\* is shown unset, as fetched
C20_Witness ==
    /\ ev.op = "fetchAttendanceOk"
    /\ isVerified
    /\ \E k \in 1..Len(attendance) : attendance[k].record_id # 0
    /\ \E k \in 1..Len(attendance) :
          attendance[k].record_id = 0 /\ attendance[k].status = Unset

\* C21: a click that cycles a student's status, whatever the verification
\* state, changes that student's row only (its status only), issues no
\* network request and leaves the remote store alone.
C21_CycleLocalOnly ==
    [][\A s \in Students :
          (ev'.op = "toggle" /\ ev'.student = s)
          => /\ net' = net
             /\ srvAtt' = srvAtt
             /\ Len(attendance') = Len(attendance)
             /\ \A k \in 1..Len(attendance) :
                   /\ attendance[k].student_id # s
                        => attendance'[k] = attendance[k]
                   /\ attendance'[k].record_id = attendance[k].record_id]_vars

\* no row on display carries the record_id of another date's record
RowsOfSelectedDate ==
    \A k \in 1..Len(attendance) :
        attendance[k].record_id # 0
        => attendance[k].record_id
              = RecordIdOf(selectedDate, attendance[k].student_id)

\* C22: the verification flags only move draft to verifying (verify
\* called), verifying to verified (write succeeded) and verifying to draft
\* (write failed), a load of a fresh scope aside; and once the selected date
\* is verified, with no row of another date on display, every later event
\* that belongs to that date (the refresh after verify, a failed or empty
\* load) leaves it verified as long as the date selection does not change.
C22_VerificationLifecycle ==
    [][/\ (~isVerifying /\ isVerifying') => ev'.op = "verifyAttendance"
       /\ (isVerifying /\ ~isVerifying') => ev'.op \in {"verifyOk", "verifyFail"}
       /\ (~isVerified /\ isVerified')
             => ev'.op \in {"verifyOk", "fetchAttendanceOk"}
       /\ (ev'.op = "verifyFail" /\ ~isVerified) => ~isVerified'
       /\ (isVerified /\ selectedDate' = selectedDate
              /\ ev'.date = selectedDate /\ RowsOfSelectedDate)
             => isVerified']_vars

\* C23: the handling of a failed commit of a grade cell, that is the catch
\* block and the reload it awaits, leaves the local value of every other
\* cell of the displayed class as it was.
C23_ErrorsScopedToRecord ==
    [][/\ ev'.op \in {"updateGradeFail", "createGradeFail"}
            => gradesData' = gradesData
       /\ (/\ ev'.op \in {"fetchGradesOk", "fetchGradesFail"}
           /\ ev'.commit # NoCommit
           /\ ev'.cls = selectedGradeClass
           /\ gradesData.class = selectedGradeClass)
            => \A cell \in Cells \ {ev'.commit.cell} :
                  gradesData'.cells[cell].points_earned
                     = gradesData.cells[cell].points_earned]_vars

\* outstanding create requests of a cell
Creates(cell) ==
    {i \in 1..Len(net) : net[i].kind = "POST" /\ net[i].cell = cell}

\* C24: per grade cell of the loaded class at most one create succeeds: no
\* create is issued for a cell while a create for it is outstanding, a
\* create succeeds only for a cell the store holds no record of, and once
\* the store holds the cell's record every commit of the cell is a PUT that
\* carries the record's id.
C24_OneCreatePerCell ==
    [][/\ \A cell \in Cells :
            (ev'.op = "onBlurCommit" /\ ev'.cell = cell
                /\ net'[Len(net')].kind = "POST")
            => Creates(cell) = {}
       /\ ev'.op = "createGradeOk" => srvGrades[ev'.cls][ev'.cell].id = 0
       /\ \A cell \in Cells :
            (/\ ev'.op = "onBlurCommit" /\ ev'.cell = cell
             /\ gradesData.class = selectedGradeClass
             /\ srvGrades[selectedGradeClass][cell].id # 0)
            => /\ net'[Len(net')].kind = "PUT"
               /\ net'[Len(net')].gradeId
                     = srvGrades[selectedGradeClass][cell].id]_vars

\* C25: the value a committing blur sends is the input rounded to the
\* nearest whole point, and once a commit of the cell has succeeded (the
\* store holds that rounded value, which is no longer the value the snapshot
\* was loaded with) a further blur with the input unchanged and nothing
\* outstanding for the cell issues no write.
C25_SingleRoundingRule ==
    [][\A cell \in Cells :
          (TableShown /\ ev'.op \in BlurOps /\ ev'.cell = cell)
          => LET numValue == NumValue(gradesData.cells[cell].points_earned)
                 stored == srvGrades[selectedGradeClass][cell]
             IN  /\ ev'.op = "onBlurCommit"
                      => net'[Len(net')].points = numValue
                 /\ (/\ gradesData.class = selectedGradeClass
                     /\ originalGradesRef.class = selectedGradeClass
                     /\ IsNum(numValue)
                     /\ stored.id # 0
                     /\ stored.points_earned # OriginalPoints(cell)
                     /\ stored.points_earned = numValue
                     /\ Writes(cell) = {})
                      => net' = net]_vars

\* C26: verified means persisted. Whenever AttendanceManager shows the scope
\* as verified, no request is outstanding and the rows on screen are those of
\* the selected date, every row's local status is the status the remote store
\* holds for that student and date.
C26_VerifiedMeansPersisted ==
    (isVerified /\ net = <<>> /\ RowsOfSelectedDate)
        => \A k \in 1..Len(attendance) :
              attendance[k].status =
                  srvAtt[selectedDate][attendance[k].student_id].status

\* C27: no lost local edits on commit success. When the success response of
\* a create or an update for cell A is applied while the table of A's class
\* is on screen, cell A of a create holds the created record and every other
\* cell keeps the local value it had before the response.
C27_NoLostLocalEdits ==
    [][(/\ ev'.op \in {"createGradeOk", "updateGradeOk"}
        /\ ev'.cls = selectedGradeClass
        /\ gradesData.class = selectedGradeClass)
          => /\ ev'.op = "createGradeOk" =>
                   /\ gradesData'.cells[ev'.cell].id # 0
                   /\ gradesData'.cells[ev'.cell].points_earned = ev'.points
             /\ \A cell \in Cells \ {ev'.cell} :
                   gradesData'.cells[cell].points_earned =
                       gradesData.cells[cell].points_earned]_vars

\* the four statuses a mark can be
Marked == {"present", "absent", "tardy", "excused"}

\* the successor the claim gives to each of the four statuses
FourStatusSuccessor ==
    [present |-> "absent", absent |-> "tardy", tardy |-> "excused",
     excused |-> "present"]

\* C28: the four-status cycle of the code. A click on a row whose status is
\* one of present, absent, tardy, excused gives it the next of the four, in
\* that order and wrapping from excused to present; a click on a row with any
\* other status (unset) gives it present. So a marked row stays marked under
\* every click, never unset, and four applications of the cycle to a marked
\* status give that status again.
C28_FourStatusCycle ==
    [][\A k \in 1..Len(attendance) :
          (ev'.op = "toggle" /\ ev'.student = attendance[k].student_id)
          => LET status == attendance[k].status
                 next == attendance'[k].status
             IN  /\ status \in Marked =>
                       /\ next = FourStatusSuccessor[status]
                       /\ next \in Marked
                       /\ CycleFourTimes(status) = status
                 /\ status \notin Marked => next = "present"]_vars

\* C28 witness: a row that was loaded unset has been clicked from present
\* through absent and tardy to excused, with the mount's load the only
\* request ever issued
C28_Witness ==
    /\ ev.op = "toggle"
    /\ issued = 1 /\ net = <<>>
    /\ HasRow(ev.student)
    /\ RowOf(ev.student).record_id = 0
    /\ srvAtt[selectedDate][ev.student].status = Unset
    /\ RowOf(ev.student).status = "excused"

ChatRequests == {i \in 1..Len(net) : net[i].kind = "CHAT"}

\* after the greeting the senders are user, ai, user, ai, ...
Alternates ==
    \A k \in 1..Len(messages) :
        messages[k].sender = IF k % 2 = 1 THEN "ai" ELSE "user"

\* C29: chat request/response alternation. At most one chat request is in
\* flight and isLoading is true exactly while it is; the messages alternate
\* user and ai after the greeting, and with no request outstanding the list
\* ends with an ai message and isLoading is false. A sendMessage called
\* while isLoading or with a blank input changes nothing; an accepted one
\* appends exactly the trimmed input as one user message and issues one
\* request; a resolved request, success or failure, appends exactly one ai
\* message and clears isLoading.
C29_ChatAlternation ==
    /\ [](/\ Cardinality(ChatRequests) <= 1
          /\ isLoading <=> ChatRequests # {}
          /\ Alternates
          /\ ~isLoading => messages[Len(messages)].sender = "ai"
          /\ isLoading => messages[Len(messages)].sender = "user")
    /\ [][/\ (ev'.op \in {"sendMessage", "sendMessageReturn"}
              /\ (isLoading \/ Trim(inputValue) = <<>>))
                => UNCHANGED <<messages, inputValue, isLoading, net>>
          /\ ev'.op = "sendMessage"
                => /\ messages' =
                         Append(messages, Message("user", Trim(inputValue)))
                   /\ Len(net') = Len(net) + 1
          /\ ev'.op \in {"chatOk", "chatFail"}
                => /\ Len(messages') = Len(messages) + 1
                   /\ SubSeq(messages', 1, Len(messages)) = messages
                   /\ messages'[Len(messages')].sender = "ai"
                   /\ ~isLoading']_vars

\* C29 witness: two sends have been answered, the first by a failure and
\* the second, typed with spaces around it, by the server's reply
C29_Witness ==
    /\ ev.op = "chatOk"
    /\ ~isLoading /\ net = <<>>
    /\ Len(messages) = 5
    /\ messages[3].content = ErrorReply
    /\ messages[4] = Message("user", <<"a">>)
    /\ messages[5].content \in Replies

TaskFailOps ==
    {"createTaskFail", "updateTaskFail", "deleteTaskFail",
     "quickUpdateStatusFail"}
TaskOkOps ==
    {"fetchTasksOk", "createTaskOk", "updateTaskOk", "deleteTaskOk",
     "quickUpdateStatusOk"}

\* C30: pessimistic task CRUD. The task list changes only in a step that
\* applies a successful response; a failed createTask, updateTask,
\* deleteTask or quickUpdateStatus leaves the list as it was and sets an
\* error; a successful update or quick status update keeps the length of
\* the list and changes no task but the one whose id is the response's,
\* which becomes the task the store now holds; a successful delete removes
\* exactly the tasks with the given id, keeping the others in order; a
\* successful create puts the created task in front of the unchanged list.
C30_PessimisticTaskCrud ==
    [][/\ tasks' # tasks => ev'.op \in TaskOkOps
       /\ ev'.op \in TaskFailOps => tasks' = tasks /\ error' # ""
       /\ ev'.op \in {"updateTaskOk", "quickUpdateStatusOk"}
             => /\ Len(tasks') = Len(tasks)
                /\ \A k \in 1..Len(tasks) :
                      IF tasks[k].id = ev'.id
                      THEN /\ tasks'[k].id = ev'.id
                           /\ \E j \in 1..Len(srvTasks') :
                                 srvTasks'[j] = tasks'[k]
                      ELSE tasks'[k] = tasks[k]
       /\ ev'.op = "deleteTaskOk"
             => tasks' = SelectSeq(tasks, LAMBDA task : task.id # ev'.id)
       /\ ev'.op = "createTaskOk"
             => /\ Len(tasks') = Len(tasks) + 1
                /\ Tail(tasks') = tasks
                /\ Head(tasks').id = ev'.id]_vars

\* C30 witness: a delete of task 2 has failed and then an update of task 1
\* with a new title has succeeded: task 1 shows the new title, task 2 is
\* still listed as it was loaded and the error of the delete is still set
C30_Witness ==
    /\ ev.op = "updateTaskOk" /\ ev.id = 1
    /\ error = "Failed to delete task"
    /\ Len(tasks) = 2
    /\ tasks[1] = [id |-> 1, title |-> <<"c">>, status |-> "cancelled"]
    /\ tasks[2] = InitialTasks[2]
    /\ net = <<>>

====
